---- MODULE Spec2Model ----
(***************************************************************************)
(* rustmate: the vault session (database.rs), the shared application state *)
(* (state.rs), the Tauri commands (commands.rs) and the asset streaming    *)
(* endpoint (server.rs), as a state machine.                               *)
(*                                                                         *)
(* Every command holds the session mutex from its first line to its return *)
(* (delete_asset drops it before it touches the cache), so a command is    *)
(* one atomic action, and delete_asset is two.  get_asset takes the cache  *)
(* mutex and the session mutex in separate short critical sections, so it  *)
(* is one action per critical section or file-system call.                 *)
(***************************************************************************)
EXTENDS Integers, Sequences, FiniteSets, TLC

\* ---------------------------------------------------------------- bounds
NumDirs == 2        \* vault directories on disk
NumPasswords == 2   \* distinct passwords a caller may type
NumSalts == 2       \* distinct values generate_salt may return
MaxAssets == 2      \* asset ids (uuids) import_asset hands out
MaxShards == 2      \* shard ids (uuids) create_shard hands out
MainShards == 1     \* shards created beside the other commands
MaxContent == 2     \* tokens in a shard's content
NumReqs == 2        \* concurrent get_asset requests
MaxFill == 2        \* get_asset requests for assets outside 1..MaxAssets
NumThreads == 2     \* threads running commands and requests side by side
NumPorts == 2       \* ports the system may hand to a listener bound to port 0
MaxRange == 3       \* largest number written in a Range header that fits u64
NumNonces == 2      \* distinct nonces the random generator may give
TagLen == 1         \* cells standing for the tag AES-GCM appends
MaxSessions == 2    \* successful unlock_vault calls in the life of the process

\* ------------------------------------------------------ program constants
CACHE_LIMIT == 50   \* server.rs: if cache.len() >= 50
NONCE_LEN == 12     \* security.rs: pub const NONCE_LEN

\* Option<T>: None is the empty tuple, Some(x) the one-element tuple
None == <<>>
Some(x) == <<x>>
Get(o) == o[1]
\* HashMap::new(), and a directory or table without entries
NoEntries == [k \in {} |-> <<>>]

Dirs == 1..NumDirs
Passwords == 1..NumPasswords
Salts == 1..NumSalts
AssetIds == 1..MaxAssets
ShardIds == 1..MaxShards
\* the shard ids asked for beside the other commands
MainShardIds == 1..MainShards
ReqIds == 1..NumReqs
\* the plaintexts a file handed to import_asset may hold
Datas == {<<>>, <<7>>, <<7, 8>>}
\* file extensions handed to import_asset
Exts == {"png", "dat"}
\* the plaintexts imported beside the other commands
MainDatas == {<<7>>, <<7, 8>>}
\* the Range headers sent beside the other commands: none, bytes=0-0,
\* bytes=1- and bytes=3-4
MainHeaders ==
  {None, Some([start |-> 0, end |-> 0]), Some([start |-> 1, end |-> -2]),
   Some([start |-> 3, end |-> 4])}
\* cargo build, with and without --release
Builds == {"debug", "release"}
\* A shard's content, as its tokens: k > 0 is the text "asset://<uuid k>",
\* 0 is any other text.
RECURSIVE SeqsUpTo(_, _)
SeqsUpTo(S, n) ==
  IF n = 0 THEN {<<>>}
  ELSE LET shorter == SeqsUpTo(S, n - 1)
       IN shorter \cup {Append(q, x) : q \in shorter, x \in S}
Contents == SeqsUpTo(0..MaxAssets, MaxContent)

VARIABLES
  vault,      \* AppState.vault: None (locked) or the VaultManager
  cache,      \* AppState.asset_cache restricted to AssetIds: id -> plaintext
  others,     \* number of cache entries whose key is outside AssetIds
  fs,         \* per vault directory: assets dir, .salt file, shards.db file
  rows,       \* per vault directory: the assets table, id -> row
  shards,     \* per vault directory: the ids in the shards table
  files,      \* per vault directory: the blobs under assets/, name -> blob
  reqs,       \* the get_asset requests in flight
  del,        \* delete_asset between dropping the session lock and cache.remove
  ret,        \* the event that just happened and what it returned
  nextId,     \* next asset uuid
  nextShard,  \* next shard uuid
  deletedOk,  \* history: ids for which delete_asset has returned Ok
  created,    \* history: per directory, the password and key of its creation
  fill,       \* history: get_asset requests for assets outside AssetIds
  thr,        \* per thread: the operation it runs, its position, the mutexes it holds
  server_port, \* AppState.server_port
  bound,      \* the port the streaming server listens on (0: no listener)
  trial,      \* a function applied on its own: its inputs and its result
  imported    \* history: per asset id, the plaintext import_asset was given,
              \* the key the blob on disk was sealed under, whether its
              \* bytes are as they were sealed, whether it is as imported

\* the variables of the lock-level view of the operations and of the
\* functions applied on their own
aux == <<thr, server_port, bound, trial, imported>>

vars == <<vault, cache, others, fs, rows, shards, files, reqs, del, ret,
          nextId, nextShard, deletedOk, created, fill, thr, server_port, bound,
          trial, imported>>

\* ------------------------------------------------------------ security.rs
\* pbkdf2 is deterministic, and distinct (password, salt) pairs give distinct
\* keys (up to collisions of HMAC-SHA256).
derive_key(password, salt) == <<password, salt>>

Keys == {derive_key(p, s) : p \in Passwords, s \in Salts}

\* A blob is a sequence of cells, one per byte; a cell is a tuple of numbers.
\* rand::thread_rng().fill_bytes(&mut nonce_bytes): the nonce, NONCE_LEN cells
Nonces == {[i \in 1..NONCE_LEN |-> <<n>>] : n \in 1..NumNonces}
\* the nonce drawn beside the other commands
MainNonces == {[i \in 1..NONCE_LEN |-> <<1>>]}

\* Aes256Gcm (crate aes_gcm) as an ideal AEAD.  encrypt gives one cell per
\* plaintext byte and TagLen cells of tag; the tag binds key, nonce and
\* plaintext.  decrypt returns the plaintext exactly for what encrypt gives
\* under the same key and nonce, and Err for every other input.
Aes256Gcm_encrypt(key, nonce, data) ==
  [i \in 1..(Len(data) + TagLen) |->
     IF i <= Len(data)
       THEN <<key[1], key[2], i, data[i]>>
       ELSE <<key[1], key[2], Len(data) - i>>
            \o [j \in 1..Len(nonce) |-> nonce[j][1]] \o data]

Aes256Gcm_decrypt(key, nonce, ciphertext) ==
  IF Len(ciphertext) < TagLen THEN None
  ELSE LET plain == [i \in 1..(Len(ciphertext) - TagLen) |->
                       ciphertext[i][Len(ciphertext[i])]]
       IN IF ciphertext = Aes256Gcm_encrypt(key, nonce, plain)
            THEN Some(plain) ELSE None

\* result = nonce_bytes ++ ciphertext (the nonce is drawn by the caller here)
encrypt_data(data, key, nonce_bytes) ==
  nonce_bytes \o Aes256Gcm_encrypt(key, nonce_bytes, data)

\* mutant of decrypt_data: the nonce is cut one byte short
decrypt_data_short_nonce(encrypted_data, key) ==
  IF Len(encrypted_data) < NONCE_LEN THEN None
  ELSE Aes256Gcm_decrypt(key, SubSeq(encrypted_data, 1, NONCE_LEN - 1),
                         SubSeq(encrypted_data, NONCE_LEN, Len(encrypted_data)))

\* mutant of decrypt_data: the tag is not checked
decrypt_data_unchecked(encrypted_data, key) ==
  IF Len(encrypted_data) < NONCE_LEN THEN None
  ELSE LET ciphertext == SubSeq(encrypted_data, NONCE_LEN + 1, Len(encrypted_data))
       IN Some([i \in 1..(Len(ciphertext) - TagLen) |->
                  ciphertext[i][Len(ciphertext[i])]])

\* Ok(plaintext) is Some(plaintext), Err(DecryptionError) is None.
decrypt_data(encrypted_data, key) ==
  IF Len(encrypted_data) < NONCE_LEN THEN None
  ELSE Aes256Gcm_decrypt(key, SubSeq(encrypted_data, 1, NONCE_LEN),
                         SubSeq(encrypted_data, NONCE_LEN + 1, Len(encrypted_data)))

\* ------------------------------------------------------------ database.rs
\* a directory: whether assets/ exists, the salt in .salt (0: no file), and
\* shards.db (None: no file)
FreshDir == [assets |-> FALSE, salt |-> 0, db |-> None]
\* shards.db: the password its pages are encrypted under (0 while the file is
\* still empty) and the tables created so far
EmptyDb == [key |-> 0, shardsTable |-> FALSE, assetsTable |-> FALSE]

\* what a command returned: Ok(..), or Err(e.to_string())
\* ids: the directory, asset or shard ids it was about; arg: for unlock_vault,
\* <<password, salt drawn by generate_salt, fault>>
Ok(op) == [op |-> op, ok |-> TRUE, err |-> "", ids |-> {}, arg |-> <<>>]
Err(op, e) == [op |-> op, ok |-> FALSE, err |-> e, ids |-> {}, arg |-> <<>>]

\* VaultError, by its Display string
InvalidPassword == "Invalid password"
SaltMissing == "IO error: Salt file missing"
IoError == "IO error"
DbError == "Database error"

Failed(e) == [ok |-> FALSE, err |-> e]
Manager(d, password, salt) ==
  [ok |-> TRUE, dir |-> d, key |-> derive_key(password, salt)]

\* number of fallible calls on each path of VaultManager::new
CreateFaults == 1..6
OpenFaults == 1..3

\* The create path: fault = 0 runs it to the end, fault = k makes the k-th
\* fallible call return Err.  Result: <<outcome, directory afterwards>>.
CreatePath(d, dir, password, salt, fault) ==
  LET d1 == [dir EXCEPT !.assets = TRUE]             \* create_dir_all
      d2 == [d1 EXCEPT !.salt = salt]                \* fs::write(salt)
      d3 == [d2 EXCEPT !.db = Some(EmptyDb)]         \* Connection::open
      d4 == [d3 EXCEPT !.db = Some([EmptyDb EXCEPT !.key = password])]
                                                     \* journal_mode = WAL writes page 1
      d5 == [d4 EXCEPT !.db = Some([Get(d4.db) EXCEPT !.shardsTable = TRUE])]
      d6 == [d5 EXCEPT !.db = Some([Get(d5.db) EXCEPT !.assetsTable = TRUE])]
  IN CASE fault = 1 -> <<Failed(IoError), dir>>
       [] fault = 2 -> <<Failed(IoError), d1>>
       [] fault = 3 -> <<Failed(DbError), d2>>
       [] fault = 4 -> <<Failed(DbError), d3>>
       [] fault = 5 -> <<Failed(DbError), d4>>
       [] fault = 6 -> <<Failed(DbError), d5>>
       [] OTHER     -> <<Manager(d, password, salt), d6>>

\* Whether a statement that reads the database succeeds on a connection keyed
\* with `password`: SQLCipher cannot decrypt page 1 with another key.  An
\* empty file has no page 1 and is readable under any key.
Readable(db, password) == db.key = 0 \/ db.key = password

\* conn.query_row("SELECT count(*) FROM shards"): Err maps to InvalidPassword
OpenPathVerify(d, dir, password) ==
  IF Readable(Get(dir.db), password) /\ Get(dir.db).shardsTable
    THEN Manager(d, password, dir.salt)
    ELSE Failed(InvalidPassword)

\* mutant of OpenPath: the salt file is looked for after the password check
OpenPathVerifyFirst(d, dir, password, fault) ==
  IF ~Readable(Get(dir.db), password) THEN <<Failed(DbError), dir>>
  ELSE IF ~Get(dir.db).shardsTable THEN <<Failed(InvalidPassword), dir>>
  ELSE IF dir.salt = 0 THEN <<Failed(SaltMissing), dir>>
  ELSE <<Manager(d, password, dir.salt), dir>>

\* The open path.  pragma_update(journal_mode) is the first statement that
\* reads the database, so with a wrong key it is the call that fails, and its
\* `?` turns the failure into VaultError::DbError; the verification read that
\* maps to InvalidPassword is reached only when the pragmas went through.
OpenPath(d, dir, password, fault) ==
  IF dir.salt = 0 THEN <<Failed(SaltMissing), dir>>
  ELSE IF fault = 1 THEN <<Failed(IoError), dir>>     \* fs::read(salt)
  ELSE IF fault = 2 THEN <<Failed(DbError), dir>>     \* Connection::open
  ELSE IF fault = 3 THEN <<Failed(DbError), dir>>     \* pragma_update(key)
  ELSE IF ~Readable(Get(dir.db), password)
    THEN <<Failed(DbError), dir>>                     \* pragma_update(journal_mode)
  ELSE LET d1 == IF Get(dir.db).key = 0
                   THEN [dir EXCEPT !.db = Some([Get(dir.db) EXCEPT !.key = password])]
                   ELSE dir
       IN <<OpenPathVerify(d, d1, password), d1>>

\* mutant of VaultManager_new: the create path is also taken when .salt is
\* absent
VaultManager_new_BySalt(d, dir, password, salt, fault) ==
  IF dir.db = None \/ dir.salt = 0
    THEN CreatePath(d, dir, password, salt, IF fault \in CreateFaults THEN fault ELSE 0)
    ELSE OpenPath(d, dir, password, IF fault \in OpenFaults THEN fault ELSE 0)

VaultManager_new(d, dir, password, salt, fault) ==
  IF dir.db = None
    THEN CreatePath(d, dir, password, salt, IF fault \in CreateFaults THEN fault ELSE 0)
    ELSE OpenPath(d, dir, password, IF fault \in OpenFaults THEN fault ELSE 0)

\* ------------------------------------------------------------ commands.rs
\* bookkeeping on the requests in flight when the session cell is written
NoteClose(r) ==
  IF r.pc \in {"exists", "read", "insert", "respond"}
    THEN [r EXCEPT !.closedPast = TRUE, !.steady = FALSE]
  ELSE IF r.pc \in {"mime", "pathkey"} THEN [r EXCEPT !.steady = FALSE]
  ELSE r

NoteUnlock(r) == IF r.pc # "idle" THEN [r EXCEPT !.unl = TRUE] ELSE r

unlock_vault(d, password, salt, fault) ==
  LET res == VaultManager_new(d, fs[d], password, salt, fault)
      out == res[1]
  IN /\ fs' = [fs EXCEPT ![d] = res[2]]
     /\ IF out.ok
          THEN /\ vault' = Some([dir |-> out.dir, key |-> out.key])
               /\ ret' = [Ok("unlock_vault") EXCEPT !.ids = {d}, !.arg = <<password, salt, fault>>]
               /\ created' = IF fs[d].db = None
                               THEN [created EXCEPT ![d] = Some([pw |-> password, key |-> out.key])]
                               ELSE created
               /\ reqs' = [r \in ReqIds |-> NoteUnlock(reqs[r])]
          ELSE /\ vault' = vault
               /\ ret' = [Err("unlock_vault", out.err) EXCEPT !.ids = {d},
                                                            !.arg = <<password, salt, fault>>]
               /\ UNCHANGED <<created, reqs>>
     /\ UNCHANGED <<cache, others, rows, shards, files, del, nextId, nextShard,
                    deletedOk, fill>>

\* mutant of close_vault: the session is not dropped
close_vault_keeps ==
  /\ vault' = vault
  /\ ret' = Ok("close_vault")
  /\ reqs' = [r \in ReqIds |-> NoteClose(reqs[r])]
  /\ UNCHANGED <<cache, others, fs, rows, shards, files, del, nextId, nextShard,
                 deletedOk, created, fill>>

close_vault ==
  /\ vault' = None
  /\ ret' = Ok("close_vault")
  /\ reqs' = [r \in ReqIds |-> NoteClose(reqs[r])]
  /\ UNCHANGED <<cache, others, fs, rows, shards, files, del, nextId, nextShard,
                 deletedOk, created, fill>>

\* vault_guard.as_mut().ok_or("Vault not locked")
VaultLocked == "Vault not locked"

\* the command `op` changes nothing and returns `r`
Returns(r) ==
  /\ ret' = r
  /\ UNCHANGED <<vault, cache, others, fs, rows, shards, files, reqs, del,
                 nextId, nextShard, deletedOk, created, fill>>

\* the assets table of the open vault; query_row / execute fail without it
HasAssetsTable(d) == Get(fs[d].db).assetsTable

\* SELECT ... FROM assets WHERE id = ?1: Some(row), or None for Err(_)
QueryAsset(d, id) ==
  IF HasAssetsTable(d) /\ id \in DOMAIN rows[d] THEN Some(rows[d][id]) ELSE None

\* match extension.to_lowercase()
MimeOf(ext) == IF ext = "png" THEN "image/png" ELSE "application/octet-stream"

import_asset(sourceExists, ext, data, nonce_bytes) ==
  IF vault = None
    THEN Returns(Err("import_asset", VaultLocked)) /\ UNCHANGED imported
  ELSE IF ~sourceExists
    THEN Returns(Err("import_asset", "File not found")) /\ UNCHANGED imported
  ELSE
    LET d == Get(vault).dir
        id == nextId
        blob == encrypt_data(data, Get(vault).key, nonce_bytes)
    IN /\ nextId <= MaxAssets
       /\ nextId' = nextId + 1
       /\ imported' = IF fs[d].assets /\ HasAssetsTable(d)
                        THEN (id :> [data |-> data, key |-> Get(vault).key,
                                     dir |-> d, intact |-> TRUE,
                                     damaged |-> FALSE]) @@ imported
                        ELSE imported
       /\ IF ~fs[d].assets
            THEN /\ ret' = Err("import_asset", IoError)        \* fs::write
                 /\ UNCHANGED <<files, rows>>
            ELSE /\ files' = [files EXCEPT ![d] = (id :> blob) @@ files[d]]
                 /\ IF HasAssetsTable(d)
                      THEN /\ rows' = [rows EXCEPT ![d] =
                                        (id :> [shard |-> 0, file |-> id, mime |-> MimeOf(ext)])
                                        @@ rows[d]]
                           /\ ret' = [Ok("import_asset") EXCEPT !.ids = {id}]
                      ELSE /\ ret' = Err("import_asset", DbError)  \* INSERT
                           /\ UNCHANGED rows
       /\ UNCHANGED <<vault, cache, others, fs, shards, reqs, del, nextShard,
                      deletedOk, created, fill>>

\* the asset ids link_assets_to_shard finds in the content
RefsOf(content) == {content[i] : i \in DOMAIN content} \ {0}

\* mutant of link_assets_to_shard: only assets without an owner are linked
link_assets_if_null(table, shard_id, content) ==
  [a \in DOMAIN table |->
     IF a \in RefsOf(content) /\ table[a].shard = 0
       THEN [table[a] EXCEPT !.shard = shard_id] ELSE table[a]]

\* UPDATE assets SET shard_id = ?1 WHERE id = ?2, for every id found
link_assets_to_shard(table, shard_id, content) ==
  [a \in DOMAIN table |->
     IF a \in RefsOf(content) THEN [table[a] EXCEPT !.shard = shard_id] ELSE table[a]]

\* the tail shared by create_shard and update_shard: link, then return
LinkAndReturn(op, d, sid, content) ==
  IF RefsOf(content) # {} /\ ~HasAssetsTable(d)
    THEN /\ ret' = Err(op, DbError)
         /\ UNCHANGED rows
    ELSE /\ rows' = [rows EXCEPT ![d] = link_assets_to_shard(rows[d], sid, content)]
         /\ ret' = [Ok(op) EXCEPT !.ids = {sid}]

create_shard(content) ==
  IF vault = None THEN Returns(Err("create_shard", VaultLocked))
  ELSE
    LET d == Get(vault).dir
        sid == nextShard
    IN /\ nextShard <= MaxShards
       /\ nextShard' = nextShard + 1
       /\ shards' = [shards EXCEPT ![d] = shards[d] \cup {sid}]
       /\ LinkAndReturn("create_shard", d, sid, content)
       /\ UNCHANGED <<vault, cache, others, fs, files, reqs, del, nextId,
                      deletedOk, created, fill>>

update_shard(sid, content) ==
  IF vault = None THEN Returns(Err("update_shard", VaultLocked))
  ELSE
    LET d == Get(vault).dir
    IN IF sid \notin shards[d]
         THEN Returns(Err("update_shard", "Query returned no rows"))
         ELSE /\ LinkAndReturn("update_shard", d, sid, content)
              /\ UNCHANGED <<vault, cache, others, fs, shards, files, reqs, del,
                             nextId, nextShard, deletedOk, created, fill>>

get_shards ==
  IF vault = None THEN Returns(Err("get_shards", VaultLocked))
  ELSE Returns([Ok("get_shards") EXCEPT !.ids = shards[Get(vault).dir]])

\* files with the names in `names` removed (fs::remove_file, if it exists)
RemoveFiles(dirFiles, names) ==
  [n \in DOMAIN dirFiles \ names |-> dirFiles[n]]

\* mutant of DeleteRows: the DELETE is left out
DeleteRowsKeep(table, ids) == table

DeleteRows(table, ids) == [a \in DOMAIN table \ ids |-> table[a]]

\* mutant of delete_asset_locked: a blob missing on disk is an error
delete_asset_locked_strict(id) ==
  /\ del = 0
  /\ IF vault = None THEN Returns(Err("delete_asset", VaultLocked))
     ELSE
       LET d == Get(vault).dir
           row == QueryAsset(d, id)
       IN IF row = None THEN Returns(Err("delete_asset", "Asset not found"))
          ELSE IF Get(row).file \notin DOMAIN files[d]
            THEN Returns(Err("delete_asset", IoError))
          ELSE /\ files' = [files EXCEPT ![d] = RemoveFiles(files[d], {Get(row).file})]
               /\ rows' = [rows EXCEPT ![d] = DeleteRows(rows[d], {id})]
               /\ del' = id
               /\ ret' = [Ok("delete_asset_locked") EXCEPT !.ids = {id}]
               /\ UNCHANGED <<vault, cache, others, fs, shards, reqs, nextId,
                              nextShard, deletedOk, created, fill>>

\* delete_asset up to drop(vault_guard)
delete_asset_locked(id) ==
  /\ del = 0
  /\ IF vault = None THEN Returns(Err("delete_asset", VaultLocked))
     ELSE
       LET d == Get(vault).dir
           row == QueryAsset(d, id)
       IN IF row = None THEN Returns(Err("delete_asset", "Asset not found"))
          ELSE /\ files' = [files EXCEPT ![d] = RemoveFiles(files[d], {Get(row).file})]
               /\ rows' = [rows EXCEPT ![d] = DeleteRows(rows[d], {id})]
               /\ del' = id
               /\ ret' = [Ok("delete_asset_locked") EXCEPT !.ids = {id}]
               /\ UNCHANGED <<vault, cache, others, fs, shards, reqs, nextId,
                              nextShard, deletedOk, created, fill>>

CacheRemove(c, id) == [k \in DOMAIN c \ {id} |-> c[k]]

\* delete_asset from the cache invalidation to Ok(())
delete_asset_invalidate ==
  /\ del # 0
  /\ cache' = CacheRemove(cache, del)
  /\ del' = 0
  /\ deletedOk' = deletedOk \cup {del}
  /\ ret' = [Ok("delete_asset") EXCEPT !.ids = {del}]
  /\ UNCHANGED <<vault, others, fs, rows, shards, files, reqs, nextId,
                 nextShard, created, fill>>

delete_shard(sid) ==
  IF vault = None THEN Returns(Err("delete_shard", VaultLocked))
  ELSE
    LET d == Get(vault).dir
    IN IF ~HasAssetsTable(d) THEN Returns(Err("delete_shard", DbError))
       ELSE
         LET linked == {a \in DOMAIN rows[d] : rows[d][a].shard = sid}
         IN /\ files' = [files EXCEPT ![d] =
                           RemoveFiles(files[d], {rows[d][a].file : a \in linked})]
            /\ rows' = [rows EXCEPT ![d] = DeleteRows(rows[d], linked)]
            /\ shards' = [shards EXCEPT ![d] = shards[d] \ {sid}]
            /\ ret' = [Ok("delete_shard") EXCEPT !.ids = linked]
            /\ UNCHANGED <<vault, cache, others, fs, reqs, del, nextId,
                           nextShard, deletedOk, created, fill>>

\* -------------------------------------------------------------- server.rs
\* A request: where it is in get_asset, its locals, and its response.
\*   afterDel:   it started after delete_asset(id) had returned Ok
\*   unl:        the session cell held a session at some time since it started
\*   closedPast: close_vault ran after it had left its last session lookup
\*   ins:        it has inserted into the cache
\*   steady:     the vault was unlocked and the asset imported when it
\*               arrived, close_vault has not run since, and it turned out
\*               to carry no Range header
Idle ==
  [pc |-> "idle", id |-> 0, cached |-> None, mime |-> "", path |-> None,
   key |-> None, data |-> None, resp |-> None,
   afterDel |-> FALSE, unl |-> FALSE, closedPast |-> FALSE, ins |-> FALSE,
   steady |-> FALSE]

\* status, the text of an error body, Content-Type ("" when not set), the
\* Content-Range (<<start, end, total>>, <<total>> for "bytes */total", <<>>
\* when not set) and the body
Response(status, reason, mime, body) ==
  [status |-> status, reason |-> reason, mime |-> mime, crange |-> <<>>,
   body |-> body]

\* return (StatusCode, "reason").into_response()
Fail(r, status, reason) ==
  [r EXCEPT !.pc = "done", !.resp = Some(Response(status, reason, "", <<>>))]

\* a step of get_asset: it is no command and returns nothing to one
Step(r, new) ==
  /\ reqs' = [reqs EXCEPT ![r] = new]
  /\ ret' = Ok("get_asset")

\* 1. the cache lookup: cache.get(&id).cloned()
get_asset_cached(r, id) ==
  /\ reqs[r].pc = "idle"
  /\ Step(r, [Idle EXCEPT !.pc = "mime", !.id = id,
                          !.cached = IF id \in DOMAIN cache THEN Some(cache[id]) ELSE None,
                          !.afterDel = id \in deletedOk,
                          !.unl = vault # None,
                          !.steady = vault # None /\ id \in DOMAIN imported])
  /\ UNCHANGED <<vault, cache, others, fs, rows, shards, files, del, nextId,
                 nextShard, deletedOk, created, fill>>

\* mutant of MimeLookup: a cache hit is served without the session lookup
MimeLookupCachedFirst(q) ==
  IF q.cached # None
    THEN [q EXCEPT !.mime = "application/octet-stream", !.pc = "respond",
                   !.data = q.cached]
  ELSE IF vault = None THEN Fail(q, 403, "Vault locked")
  ELSE LET row == QueryAsset(Get(vault).dir, q.id)
       IN IF row = None THEN Fail(q, 404, "Asset not found")
          ELSE [q EXCEPT !.mime = Get(row).mime, !.pc = "pathkey"]

\* what the mime_type lookup makes of the request
MimeLookup(q) ==
  IF vault = None THEN Fail(q, 403, "Vault locked")
  ELSE LET row == QueryAsset(Get(vault).dir, q.id)
       IN IF row = None THEN Fail(q, 404, "Asset not found")
          ELSE [q EXCEPT !.mime = Get(row).mime,
                         !.pc = IF q.cached # None THEN "respond" ELSE "pathkey",
                         !.data = q.cached]

\* 2. the mime_type lookup under the session lock
get_asset_mime(r) ==
  /\ reqs[r].pc = "mime"
  /\ Step(r, MimeLookup(reqs[r]))
  /\ UNCHANGED <<vault, cache, others, fs, rows, shards, files, del, nextId,
                 nextShard, deletedOk, created, fill>>

\* what the file_path / asset_key lookup makes of the request
PathKeyLookup(q) ==
  IF vault = None THEN Fail(q, 403, "Vault locked")
  ELSE LET row == QueryAsset(Get(vault).dir, q.id)
       IN IF row = None THEN Fail(q, 404, "Asset not found")
          ELSE [q EXCEPT !.path = Some(<<Get(vault).dir, Get(row).file>>),
                         !.key = Some(Get(vault).key),
                         !.pc = "exists"]

\* 3a. on a miss, the file_path and asset_key lookup under the session lock
get_asset_pathkey(r) ==
  /\ reqs[r].pc = "pathkey"
  /\ Step(r, PathKeyLookup(reqs[r]))
  /\ UNCHANGED <<vault, cache, others, fs, rows, shards, files, del, nextId,
                 nextShard, deletedOk, created, fill>>

FileAt(path) == IF path[2] \in DOMAIN files[path[1]]
                  THEN Some(files[path[1]][path[2]]) ELSE None

\* mutant of get_asset_exists: a missing file empties the cache
get_asset_exists_clearing(r) ==
  /\ reqs[r].pc = "exists"
  /\ Step(r, IF FileAt(Get(reqs[r].path)) = None
               THEN Fail(reqs[r], 404, "File not found on disk")
               ELSE [reqs[r] EXCEPT !.pc = "read"])
  /\ cache' = IF FileAt(Get(reqs[r].path)) = None THEN NoEntries ELSE cache
  /\ UNCHANGED <<vault, others, fs, rows, shards, files, del, nextId,
                 nextShard, deletedOk, created, fill>>

\* 3b. asset_path.exists()
get_asset_exists(r) ==
  /\ reqs[r].pc = "exists"
  /\ Step(r, IF FileAt(Get(reqs[r].path)) = None
               THEN Fail(reqs[r], 404, "File not found on disk")
               ELSE [reqs[r] EXCEPT !.pc = "read"])
  /\ UNCHANGED <<vault, cache, others, fs, rows, shards, files, del, nextId,
                 nextShard, deletedOk, created, fill>>

\* mutant of ReadDecrypt: the key is taken from the session when decrypting
ReadDecryptNeedsSession(q) ==
  LET blob == FileAt(Get(q.path))
  IN IF blob = None THEN Fail(q, 500, "Failed to read file")
     ELSE IF vault = None THEN Fail(q, 403, "Vault locked")
     ELSE LET plain == decrypt_data(Get(blob), Get(vault).key)
          IN IF plain = None THEN Fail(q, 500, "Failed to decrypt")
             ELSE [q EXCEPT !.data = plain, !.pc = "insert"]

\* what fs::read and decrypt_data make of the request
ReadDecrypt(q) ==
  LET blob == FileAt(Get(q.path))
  IN IF blob = None THEN Fail(q, 500, "Failed to read file")
     ELSE LET plain == decrypt_data(Get(blob), Get(q.key))
          IN IF plain = None THEN Fail(q, 500, "Failed to decrypt")
             ELSE [q EXCEPT !.data = plain, !.pc = "insert"]

\* 3c. std::fs::read and security::decrypt_data
get_asset_read(r) ==
  /\ reqs[r].pc = "read"
  /\ Step(r, ReadDecrypt(reqs[r]))
  /\ UNCHANGED <<vault, cache, others, fs, rows, shards, files, del, nextId,
                 nextShard, deletedOk, created, fill>>

CacheLen == Cardinality(DOMAIN cache) + others

\* mutant of NeedsEviction: off by one
NeedsEvictionOver(len) == len > CACHE_LIMIT

\* if cache.len() >= 50
NeedsEviction(len) == len >= CACHE_LIMIT

\* cache.keys().next(): any key of the map, 0 standing for a key outside
\* AssetIds
Victims == DOMAIN cache \cup (IF others > 0 THEN {0} ELSE {})

\* the cache after the eviction of `victim`: <<entries in AssetIds, others>>
Evicted(victim) ==
  IF victim = 0 THEN <<cache, others - 1>>
  ELSE <<CacheRemove(cache, victim), others>>

\* 3d. the cache insertion under the cache lock
get_asset_insert(r) ==
  /\ reqs[r].pc = "insert"
  /\ \E victim \in Victims \cup {0} :
       LET evict == NeedsEviction(CacheLen) /\ Victims # {}
           after == IF evict THEN Evicted(victim) ELSE <<cache, others>>
       IN /\ evict => victim \in Victims
          /\ ~evict => victim = 0
          /\ cache' = (reqs[r].id :> Get(reqs[r].data)) @@ after[1]
          /\ others' = after[2]
  /\ Step(r, [reqs[r] EXCEPT !.pc = "respond", !.ins = TRUE])
  /\ UNCHANGED <<vault, fs, rows, shards, files, del, nextId, nextShard,
                 deletedOk, created, fill>>

\* mutant of FullResponse: the body is left out
FullResponseNoBody(q) == Response(200, "", q.mime, <<>>)

\* 5. the full response (no Range header, or one that is not "bytes=...")
FullResponse(q) == Response(200, "", q.mime, Get(q.data))

Min(a, b) == IF a <= b THEN a ELSE b

\* A Range header "bytes=<start>-<end>", as what parse::<u64>() makes of its
\* parts: a number; -1 for a part that is no decimal number (parts[0] may be
\* empty); -3 for a decimal number above u64::MAX, which parse() rejects
\* too; and for the end -2 when it is absent or empty.
\* parts[0].parse().unwrap_or(0)
RangeStart(h) == IF h.start < 0 THEN 0 ELSE h.start
\* mutant of RangeEnd: an absent end is taken as the start of the asset
RangeEndZero(h, last) == IF h.end < 0 THEN 0 ELSE h.end

\* parts[1].parse().unwrap_or(total_len - 1), or total_len - 1
RangeEnd(h, last) == IF h.end < 0 THEN last ELSE h.end

\* 4. Range support.  total_len - 1 is computed on u64 whenever the header
\* starts with "bytes=": for an empty plaintext the debug build panics on the
\* overflow, and the release build wraps to 2^64 - 1, after which
\* start < total_len is false for every start.
RangeResponse(q, hdr, build) ==
  LET data == Get(q.data)
      total == Len(data)
  IN IF hdr = None THEN FullResponse(q)
     ELSE IF total = 0
       THEN IF build = "debug"
              THEN Response(0, "panicked: attempt to subtract with overflow", "", <<>>)
              ELSE [Response(416, "", "", <<>>) EXCEPT !.crange = <<total>>]
     ELSE LET start == RangeStart(Get(hdr))
              end == RangeEnd(Get(hdr), total - 1)
          IN IF start <= end /\ start < total
               THEN LET last == Min(end, total - 1)
                    IN [Response(206, "", q.mime, SubSeq(data, start + 1, last + 1))
                          EXCEPT !.crange = <<start, last, total>>]
               ELSE [Response(416, "", "", <<>>) EXCEPT !.crange = <<total>>]

\* The Range header and the build are fixed when the request arrives; they
\* are first read here, so they are drawn here.
get_asset_respond(r, hdr, build) ==
  /\ reqs[r].pc = "respond"
  /\ Step(r, [reqs[r] EXCEPT !.pc = "done",
                             !.steady = @ /\ hdr = None,
                             !.resp = Some(RangeResponse(reqs[r], hdr, build))])
  /\ UNCHANGED <<vault, cache, others, fs, rows, shards, files, del, nextId,
                 nextShard, deletedOk, created, fill>>

\* the connection is done with; the task slot serves the next request
get_asset_done(r) ==
  /\ reqs[r].pc = "done"
  /\ reqs' = [reqs EXCEPT ![r] = Idle]
  /\ ret' = Ok("get_asset")
  /\ UNCHANGED <<vault, cache, others, fs, rows, shards, files, del, nextId,
                 nextShard, deletedOk, created, fill>>

\* A whole cache-miss get_asset for an asset outside AssetIds, of which only
\* the cache insertion touches the state kept here.  Its key is new to the
\* cache (fresh) or already in it.
get_asset_other(fresh) ==
  /\ fill < MaxFill
  /\ fill' = fill + 1
  /\ \E victim \in Victims \cup {0} :
       LET evict == NeedsEviction(CacheLen) /\ Victims # {}
           after == IF evict THEN Evicted(victim) ELSE <<cache, others>>
       IN /\ evict => victim \in Victims
          /\ ~evict => victim = 0
          /\ ~fresh => after[2] > 0
          /\ cache' = after[1]
          /\ others' = IF fresh THEN after[2] + 1 ELSE after[2]
  /\ ret' = Ok("get_asset")
  /\ UNCHANGED <<vault, fs, rows, shards, files, reqs, del, nextId, nextShard,
                 deletedOk, created>>

\* ------------------------------------------------- the mutexes, per thread
\* An operation as the sequence of its steps, in program order:
\*   <<"lock", m>>    m.lock() returned the guard (blocks while m is held)
\*   <<"unlock", m>>  the guard of m is dropped
\*   <<"session", _>> vault_guard.as_ref() / as_mut(): returns early on None
\*   <<"try", w>>     the fallible call w: on Err the operation returns early
\*   <<"do", w>>      the infallible work w
\* Returning, early or not, drops every guard still held.  The mutexes are
\* "vault" (AppState.vault), "cache" (asset_cache) and "port" (server_port).
get_asset_steps(hit) ==
  << <<"lock", "cache">>, <<"do", "cache_read">>, <<"unlock", "cache">>,
     <<"lock", "vault">>, <<"session", "">>, <<"try", "query">>,
     <<"unlock", "vault">> >>
  \o (IF hit THEN << >>
      ELSE << <<"lock", "vault">>, <<"session", "">>, <<"try", "query">>,
              <<"unlock", "vault">>,
              <<"try", "asset_exists">>, <<"try", "asset_read">>,
              <<"try", "decrypt">>,
              <<"lock", "cache">>, <<"do", "cache_mutate">>,
              <<"unlock", "cache">> >>)
  \o << <<"do", "respond">> >>

asset_protocol_handler_steps ==
  << <<"lock", "vault">>, <<"session", "">>, <<"try", "query">>,
     <<"try", "asset_exists">>, <<"unlock", "vault">>,
     <<"try", "asset_read">>, <<"try", "decrypt">>, <<"do", "respond">> >>

import_asset_steps ==
  << <<"lock", "vault">>, <<"session", "">>, <<"try", "source_exists">>,
     <<"try", "source_read">>, <<"try", "encrypt">>, <<"try", "asset_write">>,
     <<"try", "insert">>, <<"unlock", "vault">> >>

\* mutant of delete_asset_steps: the cache is invalidated under the session
\* lock
delete_asset_steps_nodrop ==
  << <<"lock", "vault">>, <<"session", "">>, <<"try", "query">>,
     <<"do", "asset_remove">>, <<"try", "delete">>,
     <<"lock", "cache">>, <<"do", "cache_mutate">>, <<"unlock", "cache">>,
     <<"unlock", "vault">> >>

delete_asset_steps ==
  << <<"lock", "vault">>, <<"session", "">>, <<"try", "query">>,
     <<"do", "asset_remove">>, <<"try", "delete">>, <<"unlock", "vault">>,
     <<"lock", "cache">>, <<"do", "cache_mutate">>, <<"unlock", "cache">> >>

delete_shard_steps ==
  << <<"lock", "vault">>, <<"session", "">>, <<"try", "query">>,
     <<"do", "asset_remove">>, <<"try", "delete">>, <<"try", "delete">>,
     <<"unlock", "vault">> >>

\* VaultManager::new runs, and its result is stored, under the session lock
unlock_vault_steps ==
  << <<"lock", "vault">>, <<"open", "">>, <<"unlock", "vault">> >>

close_vault_steps ==
  << <<"lock", "vault">>, <<"close", "">>, <<"unlock", "vault">> >>

get_server_port_steps ==
  << <<"lock", "port">>, <<"read_port", "">>, <<"unlock", "port">> >>

\* the task spawned by setup: start_server, then the port is stored
setup_steps ==
  << <<"bind", "">>, <<"lock", "port">>, <<"write_port", "">>,
     <<"unlock", "port">> >>

\* the operations a thread may be asked to run
ThreadOps ==
  {"get_asset", "asset_protocol_handler", "import_asset", "delete_asset",
   "delete_shard", "unlock_vault", "close_vault", "get_server_port"}

StepsOf(t) ==
  CASE t.op = "get_asset" -> get_asset_steps(t.hit)
    [] t.op = "asset_protocol_handler" -> asset_protocol_handler_steps
    [] t.op = "import_asset" -> import_asset_steps
    [] t.op = "delete_asset" -> delete_asset_steps
    [] t.op = "delete_shard" -> delete_shard_steps
    [] t.op = "unlock_vault" -> unlock_vault_steps
    [] t.op = "close_vault" -> close_vault_steps
    [] t.op = "get_server_port" -> get_server_port_steps
    [] t.op = "setup" -> setup_steps
    [] OTHER -> << >>

\* thread 0 is the task spawned by setup; the others run what they are asked
Threads == 0..NumThreads
IdleThread == [op |-> "idle", i |-> 1, held |-> {}, hit |-> FALSE]
SetupThread == [op |-> "setup", i |-> 1, held |-> {}, hit |-> FALSE]

Busy(t) == thr[t].op # "idle"
\* the step thread t is at: its next one (<<"ret", "">> past the last)
At(t) ==
  IF Busy(t) /\ thr[t].i <= Len(StepsOf(thr[t]))
    THEN StepsOf(thr[t])[thr[t].i] ELSE <<"ret", "">>
Holder(m) == {t \in Threads : m \in thr[t].held}
Advance(t, held) ==
  thr' = [thr EXCEPT ![t].i = thr[t].i + 1, ![t].held = held]
Leave(t) == thr' = [thr EXCEPT ![t] = IdleThread]
Model == <<vault, cache, others, fs, rows, shards, files, reqs, del, ret,
           nextId, nextShard, deletedOk, created, fill, imported>>

\* a thread is handed an operation; a get_asset will hit the cache or miss
Start(t, op, hit) ==
  /\ t # 0 /\ ~Busy(t)
  /\ thr' = [thr EXCEPT ![t] = [op |-> op, i |-> 1, held |-> {},
                                hit |-> hit /\ op = "get_asset"]]
  /\ UNCHANGED <<Model, server_port, bound, trial>>

\* Mutex::lock: std's mutex is not reentrant, so the holder itself waits too
Acquire(t) ==
  /\ At(t)[1] = "lock"
  /\ Holder(At(t)[2]) = {}
  /\ Advance(t, thr[t].held \cup {At(t)[2]})
  /\ UNCHANGED <<Model, server_port, bound, trial>>

Release(t) ==
  /\ At(t)[1] = "unlock"
  /\ Advance(t, thr[t].held \ {At(t)[2]})
  /\ UNCHANGED <<Model, server_port, bound, trial>>

\* the step succeeds: Some(manager), Ok(..), or work that cannot fail
Work(t) ==
  /\ \/ At(t)[1] \in {"do", "try"}
     \/ At(t)[1] = "session" /\ vault # None
  /\ Advance(t, thr[t].held)
  /\ UNCHANGED <<Model, server_port, bound, trial>>

\* the step fails and the operation returns from there (for the setup task:
\* Err(e) => eprintln!("Failed to start server"))
EarlyReturn(t) ==
  /\ \/ At(t)[1] \in {"try", "bind"}
     \/ At(t)[1] = "session" /\ vault = None
  /\ Leave(t)
  /\ UNCHANGED <<Model, server_port, bound, trial>>

\* match VaultManager::new(..) { Ok(manager) => *vault_guard = Some(manager) .. }
Open(t) ==
  /\ At(t)[1] = "open"
  /\ unlock_vault(1, 1, 1, 0)
  /\ Advance(t, thr[t].held)
  /\ UNCHANGED <<server_port, bound, trial, imported>>

\* *vault_guard = None
Close(t) ==
  /\ At(t)[1] = "close"
  /\ close_vault
  /\ Advance(t, thr[t].held)
  /\ UNCHANGED <<server_port, bound, trial, imported>>

\* the ports the system hands out for a bind to 127.0.0.1:0
Ports == 1..NumPorts

\* start_server: TcpListener::bind, local_addr().port(), serve, Ok(port)
Bind(t, port) ==
  /\ At(t)[1] = "bind"
  /\ bound' = port
  /\ Advance(t, thr[t].held)
  /\ UNCHANGED <<Model, server_port, trial>>

\* *state_cloned.server_port.lock().unwrap() = port
WritePort(t) ==
  /\ At(t)[1] = "write_port"
  /\ server_port' = bound
  /\ Advance(t, thr[t].held)
  /\ UNCHANGED <<Model, bound, trial>>

\* get_server_port: Ok(*app_state.server_port.lock()?)
ReadPort(t) ==
  /\ At(t)[1] = "read_port"
  /\ ret' = [Ok("get_server_port") EXCEPT !.arg = <<server_port>>]
  /\ Advance(t, thr[t].held)
  /\ UNCHANGED <<vault, cache, others, fs, rows, shards, files, reqs, del,
                 nextId, nextShard, deletedOk, created, fill, server_port, bound,
                 trial, imported>>

Return(t) ==
  /\ Busy(t) /\ At(t)[1] = "ret"
  /\ Leave(t)
  /\ UNCHANGED <<Model, server_port, bound, trial>>

\* ------------------------------------------------------------ environment
\* the user (or a fault of the disk) removes a vault's .salt file
RemoveSalt(d) ==
  /\ fs[d].db # None
  /\ fs[d].salt # 0
  /\ fs' = [fs EXCEPT ![d].salt = 0]
  /\ ret' = [Ok("RemoveSalt") EXCEPT !.ids = {d}]
  /\ UNCHANGED <<vault, cache, others, rows, shards, files, reqs, del, nextId,
                 nextShard, deletedOk, created, fill>>

\* ------------------------------------------------------------- the system
\* no function is being applied on its own
NoTrial == [fn |-> "none"]

\* AppState::default(), over vault directories that do not exist yet
InitState ==
  /\ vault = None
  /\ cache = NoEntries
  /\ others = 0
  /\ fs = [d \in Dirs |-> FreshDir]
  /\ rows = [d \in Dirs |-> NoEntries]
  /\ shards = [d \in Dirs |-> {}]
  /\ files = [d \in Dirs |-> NoEntries]
  /\ reqs = [r \in ReqIds |-> Idle]
  /\ del = 0
  /\ ret = Ok("start")
  /\ nextId = 1
  /\ nextShard = 1
  /\ deletedOk = {}
  /\ created = [d \in Dirs |-> None]
  /\ fill = 0
  /\ thr = [t \in Threads |-> IF t = 0 THEN SetupThread ELSE IdleThread]
  /\ server_port = 0
  /\ bound = 0
  /\ imported = NoEntries

Init == InitState /\ trial = NoTrial

\* The commands and the streaming endpoint on a disk without faults, one
\* request at a time beside the commands, in one vault directory.
Next ==
  \/ unlock_vault(1, 1, 1, 0) /\ UNCHANGED aux
  \/ close_vault /\ UNCHANGED aux
  \/ \E e \in BOOLEAN, b \in MainDatas, n \in MainNonces :
       import_asset(e, "png", b, n) /\ UNCHANGED <<thr, server_port, bound, trial>>
  \/ \E c \in Contents :
       /\ vault # None => nextShard <= MainShards
       /\ create_shard(c)
       /\ UNCHANGED aux
  \/ \E sid \in MainShardIds, c \in Contents : update_shard(sid, c) /\ UNCHANGED aux
  \/ get_shards /\ UNCHANGED aux
  \/ \E id \in AssetIds : delete_asset_locked(id) /\ UNCHANGED aux
  \/ delete_asset_invalidate /\ UNCHANGED aux
  \/ \E sid \in MainShardIds : delete_shard(sid) /\ UNCHANGED aux
  \/ \E id \in AssetIds : get_asset_cached(1, id) /\ UNCHANGED aux
  \/ get_asset_mime(1) /\ UNCHANGED aux
  \/ get_asset_pathkey(1) /\ UNCHANGED aux
  \/ get_asset_exists(1) /\ UNCHANGED aux
  \/ get_asset_read(1) /\ UNCHANGED aux
  \/ get_asset_insert(1) /\ UNCHANGED aux
  \/ \E h \in MainHeaders, b \in Builds : get_asset_respond(1, h, b) /\ UNCHANGED aux
  \/ get_asset_done(1) /\ UNCHANGED aux

Spec == Init /\ [][Next]_vars

\* unlock and close on a disk whose calls may fail and whose salt may vanish
NextUnlock ==
  \/ \E d \in Dirs, p \in Passwords, s \in Salts, f \in {0} \cup CreateFaults \cup OpenFaults :
       unlock_vault(d, p, s, f) /\ UNCHANGED aux
  \/ close_vault /\ UNCHANGED aux
  \/ \E d \in Dirs : RemoveSalt(d) /\ UNCHANGED aux

SpecUnlock == Init /\ [][NextUnlock]_vars

\* the cache under concurrent requests, one vault, and requests for any
\* number of further assets
NextCache ==
  \/ unlock_vault(1, 1, 1, 0) /\ UNCHANGED aux
  \/ \E n \in MainNonces :
       import_asset(TRUE, "png", <<7>>, n) /\ UNCHANGED <<thr, server_port, bound, trial>>
  \/ \E id \in AssetIds : delete_asset_locked(id) /\ UNCHANGED aux
  \/ delete_asset_invalidate /\ UNCHANGED aux
  \/ \E r \in ReqIds, id \in AssetIds : get_asset_cached(r, id) /\ UNCHANGED aux
  \/ \E r \in ReqIds : get_asset_mime(r) /\ UNCHANGED aux
  \/ \E r \in ReqIds : get_asset_pathkey(r) /\ UNCHANGED aux
  \/ \E r \in ReqIds : get_asset_exists(r) /\ UNCHANGED aux
  \/ \E r \in ReqIds : get_asset_read(r) /\ UNCHANGED aux
  \/ \E r \in ReqIds : get_asset_insert(r) /\ UNCHANGED aux
  \/ \E r \in ReqIds : get_asset_respond(r, None, "release") /\ UNCHANGED aux
  \/ \E r \in ReqIds : get_asset_done(r) /\ UNCHANGED aux
  \/ \E fresh \in BOOLEAN : get_asset_other(fresh) /\ UNCHANGED aux

\* The cache outlives close_vault, so the process may come to a vault with
\* the cache nearly filled by requests served from another one.
InitCache ==
  /\ vault = None
  /\ cache = NoEntries
  /\ others = CACHE_LIMIT - MaxAssets
  /\ fs = [d \in Dirs |-> FreshDir]
  /\ rows = [d \in Dirs |-> NoEntries]
  /\ shards = [d \in Dirs |-> {}]
  /\ files = [d \in Dirs |-> NoEntries]
  /\ reqs = [r \in ReqIds |-> Idle]
  /\ del = 0
  /\ ret = Ok("start")
  /\ nextId = 1
  /\ nextShard = 1
  /\ deletedOk = {}
  /\ created = [d \in Dirs |-> None]
  /\ fill = 0
  /\ thr = [t \in Threads |-> IF t = 0 THEN SetupThread ELSE IdleThread]
  /\ server_port = 0
  /\ bound = 0
  /\ imported = NoEntries
  /\ trial = NoTrial

SpecCache == InitCache /\ [][NextCache]_vars

\* The operations that take the session or the cache mutex, as threads.  The
\* task spawned by setup takes neither and stays where it is.
NextLocks ==
  \E t \in Threads \ {0} :
    \/ \E op \in ThreadOps \ {"get_server_port"}, hit \in BOOLEAN : Start(t, op, hit)
    \/ Acquire(t)
    \/ Release(t)
    \/ Work(t)
    \/ EarlyReturn(t)
    \/ Open(t)
    \/ Close(t)
    \/ Return(t)

SpecLocks == Init /\ [][NextLocks]_vars

\* a step of a running operation (Start is the caller's doing, not its own)
Progress(t) ==
  \/ Acquire(t)
  \/ Release(t)
  \/ Work(t)
  \/ EarlyReturn(t)
  \/ Open(t)
  \/ Close(t)
  \/ Return(t)

\* Fair scheduling: a thread that can run does run, and a thread waiting for
\* a mutex that is free again and again gets it.
SpecLocksFair ==
  /\ SpecLocks
  /\ \A t \in Threads \ {0} : WF_vars(Progress(t)) /\ SF_vars(Acquire(t))

\* The port cell: the task spawned by setup beside get_server_port calls.
NextPort ==
  \E t \in Threads :
    \/ Start(t, "get_server_port", FALSE)
    \/ Acquire(t)
    \/ Release(t)
    \/ EarlyReturn(t)
    \/ \E port \in Ports : Bind(t, port)
    \/ WritePort(t)
    \/ ReadPort(t)
    \/ Return(t)

SpecPort == Init /\ [][NextPort]_vars

\* The Range headers "bytes=<start>-<end>" a client may send, and no header
RangeParts == {-3, -1} \cup (0..MaxRange)
Headers ==
  {None} \cup {Some([start |-> a, end |-> b]) :
                 a \in RangeParts, b \in RangeParts \cup {-2}}

\* The Range support of get_asset on its own: a decrypted buffer, its mime
\* type, a Range header and a build.
InitRange ==
  /\ InitState
  /\ \E data \in Datas, hdr \in Headers, build \in Builds :
       trial = [fn |-> "range", data |-> data, mime |-> "image/png",
                hdr |-> hdr, build |-> build, out |-> None]

ApplyRange ==
  /\ trial.fn = "range" /\ trial.out = None
  /\ trial' = [trial EXCEPT !.out =
                 Some(RangeResponse([data |-> Some(trial.data), mime |-> trial.mime],
                                    trial.hdr, trial.build))]
  /\ UNCHANGED <<Model, thr, server_port, bound>>

SpecRange == InitRange /\ [][ApplyRange]_vars

\* encrypt_data and decrypt_data on their own: a buffer, a key and a nonce,
\* the blob encrypt_data makes of them, and decrypt_data applied to the blob
\* with a key.
InitCrypto ==
  /\ InitState
  /\ \E data \in Datas, key \in Keys, nonce \in Nonces :
       trial = [fn |-> "crypt", data |-> data, key |-> key, nonce |-> nonce,
                blob |-> None, with |-> key, out |-> None]

ApplyEncrypt ==
  /\ trial.fn = "crypt" /\ trial.blob = None
  /\ trial' = [trial EXCEPT !.blob =
                 Some(encrypt_data(trial.data, trial.key, trial.nonce))]
  /\ UNCHANGED <<Model, thr, server_port, bound>>

ApplyDecrypt(key) ==
  /\ trial.fn = "crypt" /\ trial.blob # None /\ trial.out = None
  /\ trial' = [trial EXCEPT !.with = key,
                            !.out = Some(decrypt_data(Get(trial.blob), key))]
  /\ UNCHANGED <<Model, thr, server_port, bound>>

NextCrypto ==
  \/ ApplyEncrypt
  \/ \E key \in Keys : ApplyDecrypt(key)

SpecCrypto == InitCrypto /\ [][NextCrypto]_vars

\* What may happen to a blob under assets/ outside the program: it is cut
\* short, one byte of it is changed, or it is replaced by a blob sealed under
\* another key (a file of another vault).
Truncated(blob, n) == SubSeq(blob, 1, n)
Flipped(blob, i) == [blob EXCEPT ![i] = [@ EXCEPT ![Len(@)] = @ + 1]]
\* the lengths a blob is cut to and the bytes that are changed: the ends of
\* the nonce, of the ciphertext and of the tag
Cuts(blob) == {0, NONCE_LEN - 1, NONCE_LEN, Len(blob) - 1}
Flips(blob) == {1, NONCE_LEN, NONCE_LEN + 1, Len(blob)}
Damage(id) ==
  /\ id \in DOMAIN imported
  /\ ~imported[id].damaged
  /\ id \in DOMAIN files[imported[id].dir]
  /\ LET blob == files[imported[id].dir][id]
     IN \/ /\ \E new \in {Truncated(blob, n) : n \in Cuts(blob)}
                         \cup {Flipped(blob, i) : i \in Flips(blob)} :
                files' = [files EXCEPT ![imported[id].dir][id] = new]
           /\ imported' = [imported EXCEPT ![id].damaged = TRUE,
                                           ![id].intact = FALSE]
        \/ \E k \in Keys \ {imported[id].key} :
             /\ files' = [files EXCEPT ![imported[id].dir][id] =
                            encrypt_data(imported[id].data, k, SubSeq(blob, 1, NONCE_LEN))]
             /\ imported' = [imported EXCEPT ![id].damaged = TRUE, ![id].key = k]
  /\ ret' = [Ok("Damage") EXCEPT !.ids = {id}]
  /\ UNCHANGED <<vault, cache, others, fs, rows, shards, reqs, del, nextId,
                 nextShard, deletedOk, created, fill, thr, server_port, bound,
                 trial>>

\* Imports and requests in one vault whose blobs may be damaged on disk.
NextTamper ==
  \/ unlock_vault(1, 1, 1, 0) /\ UNCHANGED aux
  \/ \E b \in MainDatas, n \in MainNonces :
       import_asset(TRUE, "png", b, n) /\ UNCHANGED <<thr, server_port, bound, trial>>
  \/ \E id \in AssetIds : Damage(id)
  \/ \E id \in AssetIds : get_asset_cached(1, id) /\ UNCHANGED aux
  \/ get_asset_mime(1) /\ UNCHANGED aux
  \/ get_asset_pathkey(1) /\ UNCHANGED aux
  \/ get_asset_exists(1) /\ UNCHANGED aux
  \/ get_asset_read(1) /\ UNCHANGED aux
  \/ get_asset_insert(1) /\ UNCHANGED aux
  \/ get_asset_respond(1, None, "release") /\ UNCHANGED aux
  \/ get_asset_done(1) /\ UNCHANGED aux

SpecTamper == Init /\ [][NextTamper]_vars

\* ------------------------------------------------------------ protocol.rs
\* asset_protocol_handler for a non-empty id, in one state of the session
\* and the disk: Ok(response) is <<"Ok", response>>, Err(e) is <<"Err", e>>.
\* The session lock is held over the query and the exists() test; the file
\* is read after it is dropped.  The Range code is that of get_asset line by
\* line (the 206 and the full response carry one more header,
\* Access-Control-Allow-Origin).  The cache is not used.
asset_protocol_handler(id, hdr, build) ==
  IF vault = None THEN <<"Ok", Response(403, "Vault is locked", "", <<>>)>>
  ELSE LET row == QueryAsset(Get(vault).dir, id)
       IN IF row = None THEN <<"Err", "Asset not found">>
          ELSE LET blob == FileAt(<<Get(vault).dir, Get(row).file>>)
               IN IF blob = None THEN <<"Err", "File not found on disk">>
                  ELSE LET plain == decrypt_data(Get(blob), Get(vault).key)
                       IN IF plain = None THEN <<"Err", "Failed to decrypt">>
                          ELSE <<"Ok", RangeResponse([data |-> plain, mime |-> Get(row).mime],
                                                     hdr, build)>>

\* lib.rs: register_uri_scheme_protocol("asset", ..): Ok(r) => r,
\* Err(e) => status 500 with e.to_string() as the body
register_uri_scheme_protocol(result) ==
  IF result[1] = "Ok" THEN result[2] ELSE Response(500, result[2], "", <<>>)

\* get_asset from the cache lookup to the response while no command runs
\* beside it: the steps above one after the other in one state
get_asset(id, hdr, build) ==
  LET q0 == [Idle EXCEPT !.pc = "mime", !.id = id,
                         !.cached = IF id \in DOMAIN cache THEN Some(cache[id]) ELSE None]
      q1 == MimeLookup(q0)
      q2 == IF q1.pc = "pathkey" THEN PathKeyLookup(q1) ELSE q1
      q3 == IF q2.pc = "exists"
              THEN IF FileAt(Get(q2.path)) = None
                     THEN Fail(q2, 404, "File not found on disk")
                     ELSE [q2 EXCEPT !.pc = "read"]
              ELSE q2
      q4 == IF q3.pc = "read" THEN ReadDecrypt(q3) ELSE q3
  IN IF q4.pc = "done" THEN Get(q4.resp) ELSE RangeResponse(q4, hdr, build)

\* one request sent to the custom scheme and to the HTTP endpoint in the
\* same state
ServeBoth(id, hdr, build) ==
  /\ trial = NoTrial
  /\ trial' = [fn |-> "serve", id |-> id, hdr |-> hdr, build |-> build,
               scheme |-> register_uri_scheme_protocol(
                            asset_protocol_handler(id, hdr, build)),
               http |-> get_asset(id, hdr, build)]
  /\ UNCHANGED <<Model, thr, server_port, bound>>

\* The two endpoints beside the commands that bring the vault and the cache
\* to the states they may be asked in.
NextProtocol ==
  \/ trial = NoTrial /\ unlock_vault(1, 1, 1, 0) /\ UNCHANGED aux
  \/ trial = NoTrial /\ close_vault /\ UNCHANGED aux
  \/ \E b \in Datas, n \in MainNonces :
       /\ trial = NoTrial
       /\ import_asset(TRUE, "png", b, n)
       /\ UNCHANGED <<thr, server_port, bound, trial>>
  \/ \E id \in AssetIds : trial = NoTrial /\ get_asset_cached(1, id) /\ UNCHANGED aux
  \/ trial = NoTrial /\ get_asset_mime(1) /\ UNCHANGED aux
  \/ trial = NoTrial /\ get_asset_pathkey(1) /\ UNCHANGED aux
  \/ trial = NoTrial /\ get_asset_exists(1) /\ UNCHANGED aux
  \/ trial = NoTrial /\ get_asset_read(1) /\ UNCHANGED aux
  \/ trial = NoTrial /\ get_asset_insert(1) /\ UNCHANGED aux
  \/ trial = NoTrial /\ get_asset_respond(1, None, "release") /\ UNCHANGED aux
  \/ trial = NoTrial /\ get_asset_done(1) /\ UNCHANGED aux
  \/ \E id \in AssetIds, hdr \in MainHeaders, build \in Builds : ServeBoth(id, hdr, build)

SpecProtocol == Init /\ [][NextProtocol]_vars

\* Saving records beside imports and deletions in one vault.  A save notes
\* the content it was given and the assets table it found.
Saving(content) ==
  trial' = [fn |-> "save", content |-> content,
            before |-> IF vault = None THEN NoEntries ELSE rows[Get(vault).dir]]

NextShards ==
  \/ unlock_vault(1, 1, 1, 0) /\ UNCHANGED aux
  \/ \E n \in MainNonces :
       import_asset(TRUE, "png", <<7>>, n) /\ UNCHANGED <<thr, server_port, bound, trial>>
  \/ \E c \in Contents :
       create_shard(c) /\ Saving(c) /\ UNCHANGED <<thr, server_port, bound, imported>>
  \/ \E sid \in ShardIds, c \in Contents :
       update_shard(sid, c) /\ Saving(c) /\ UNCHANGED <<thr, server_port, bound, imported>>
  \/ \E id \in AssetIds : delete_asset_locked(id) /\ UNCHANGED aux
  \/ delete_asset_invalidate /\ UNCHANGED aux

SpecShards == Init /\ [][NextShards]_vars

\* A blob under assets/ is removed outside the program.
LoseFile(id) ==
  /\ vault # None
  /\ id \in DOMAIN files[Get(vault).dir]
  /\ files' = [files EXCEPT ![Get(vault).dir] = RemoveFiles(@, {id})]
  /\ ret' = [Ok("LoseFile") EXCEPT !.ids = {id}]
  /\ UNCHANGED <<vault, cache, others, fs, rows, shards, reqs, del, nextId,
                 nextShard, deletedOk, created, fill, aux>>

\* a delete_asset call notes the id it was given and what it found
Deleting(id) ==
  trial' = [fn |-> "delete", id |-> id,
            row |-> vault # None /\ id \in DOMAIN rows[Get(vault).dir],
            file |-> vault # None /\ id \in DOMAIN files[Get(vault).dir],
            cached |-> id \in DOMAIN cache]

\* Deletions beside imports and requests in one vault whose blobs may go
\* missing on disk.
NextDelete ==
  \/ unlock_vault(1, 1, 1, 0) /\ UNCHANGED aux
  \/ \E n \in MainNonces :
       import_asset(TRUE, "png", <<7>>, n) /\ UNCHANGED <<thr, server_port, bound, trial>>
  \/ \E id \in AssetIds : LoseFile(id)
  \/ \E id \in AssetIds :
       delete_asset_locked(id) /\ Deleting(id) /\ UNCHANGED <<thr, server_port, bound, imported>>
  \/ delete_asset_invalidate /\ UNCHANGED aux
  \/ \E id \in AssetIds : get_asset_cached(1, id) /\ UNCHANGED aux
  \/ get_asset_mime(1) /\ UNCHANGED aux
  \/ get_asset_pathkey(1) /\ UNCHANGED aux
  \/ get_asset_exists(1) /\ UNCHANGED aux
  \/ get_asset_read(1) /\ UNCHANGED aux
  \/ get_asset_insert(1) /\ UNCHANGED aux
  \/ get_asset_respond(1, None, "release") /\ UNCHANGED aux
  \/ get_asset_done(1) /\ UNCHANGED aux

SpecDelete == Init /\ [][NextDelete]_vars

\* One request beside unlock_vault and close_vault, with the sessions
\* numbered: n counts the sessions written into the session cell so far, and
\* the request notes the number of the session each of its two lookups read.
InitSessions ==
  /\ InitState
  /\ trial = [fn |-> "sessions", n |-> 0, mime |-> 0, pathkey |-> 0]

\* *vault_guard = Some(manager)
SessionWritten == trial.n < MaxSessions /\ trial' = [trial EXCEPT !.n = @ + 1]
\* vault_guard.as_ref() in the mime_type lookup and in the path/key lookup
MimeRead == trial' = [trial EXCEPT !.mime = trial.n, !.pathkey = 0]
PathKeyRead == trial' = [trial EXCEPT !.pathkey = trial.n]

NextSessions ==
  \/ unlock_vault(1, 1, 1, 0) /\ SessionWritten
       /\ UNCHANGED <<thr, server_port, bound, imported>>
  \/ close_vault /\ UNCHANGED aux
  \/ \E n \in MainNonces :
       import_asset(TRUE, "png", <<7>>, n) /\ UNCHANGED <<thr, server_port, bound, trial>>
  \/ \E id \in AssetIds : get_asset_cached(1, id) /\ UNCHANGED aux
  \/ get_asset_mime(1) /\ MimeRead /\ UNCHANGED <<thr, server_port, bound, imported>>
  \/ get_asset_pathkey(1) /\ PathKeyRead /\ UNCHANGED <<thr, server_port, bound, imported>>
  \/ get_asset_exists(1) /\ UNCHANGED aux
  \/ get_asset_read(1) /\ UNCHANGED aux
  \/ get_asset_insert(1) /\ UNCHANGED aux
  \/ get_asset_respond(1, None, "release") /\ UNCHANGED aux
  \/ get_asset_done(1) /\ UNCHANGED aux

SpecSessions == InitSessions /\ [][NextSessions]_vars

\* ================================================================ claims
\* the state the commands and the endpoint share
Shared == <<vault, cache, others, fs, rows, shards, files>>

Done(r) == reqs[r].pc = "done"
Status(r) == Get(reqs[r].resp).status
CarriesBytes(r) == Done(r) /\ Status(r) \in {200, 206}

\* C1, as stated: once delete_asset(id) has returned Ok, every get_asset
\* request for that id that starts afterwards answers 404 NotFound.
C1_AfterDeleteNotFound ==
  \A r \in ReqIds : Done(r) /\ reqs[r].afterDel => Status(r) = 404

\* C1, amended: once delete_asset(id) has returned Ok, every get_asset request
\* for that id that starts afterwards is answered without a body: with 404
\* NotFound if a vault is unlocked at its lookup, with 403 (vault locked) if
\* none is; never with a 200/206 carrying bytes, cached or not.
C1_AfterDeleteNoBytes ==
  [][\A r \in ReqIds :
       reqs[r].afterDel /\ reqs[r].pc # "done" /\ reqs'[r].pc = "done"
         => /\ Get(reqs'[r].resp).body = <<>>
            /\ Get(reqs'[r].resp).status = IF vault = None THEN 403 ELSE 404]_vars

\* a request that started after the deletion found the id's plaintext in the
\* cache and was answered 404
C1_Witness ==
  \E r \in ReqIds :
    Done(r) /\ reqs[r].afterDel /\ reqs[r].cached # None /\ Status(r) = 404

\* C2: in every reachable state the cache holds at most 50 entries.
C2_CacheBounded == CacheLen <= CACHE_LIMIT

\* the cache is full and an entry a request inserted has been evicted (no
\* delete_asset has run, so nothing else removed it)
C2_Witness ==
  /\ CacheLen = CACHE_LIMIT
  /\ deletedOk = {} /\ del = 0
  /\ \E r \in ReqIds :
       /\ reqs[r].pc = "respond" /\ reqs[r].cached = None
       /\ reqs[r].id \notin DOMAIN cache

\* C3: when delete_asset or delete_shard returns Ok, the cache has no entry
\* for any asset id the operation deleted.
C3_DeletedNotCached ==
  ret.op \in {"delete_asset", "delete_shard"} /\ ret.ok
    => ret.ids \cap DOMAIN cache = {}

\* C4: while the session cell is None, every operation that needs the vault
\* fails with the vault-locked condition, returns no bytes, and leaves the
\* session, the cache, the store and the asset files as they were.
VaultOps == {"create_shard", "update_shard", "get_shards", "import_asset",
             "delete_asset", "delete_shard"}

C4_LockedFailsFast ==
  [][vault = None =>
       /\ (ret'.op \in VaultOps /\ ~(del # 0 /\ del' = 0))
            => ~ret'.ok /\ ret'.err = VaultLocked /\ UNCHANGED Shared
       /\ \A r \in ReqIds :
            reqs[r].pc \in {"mime", "pathkey"} /\ reqs'[r].pc # reqs[r].pc
              => /\ reqs'[r].pc = "done"
                 /\ reqs'[r].resp = Some(Response(403, "Vault locked", "", <<>>))
                 /\ UNCHANGED Shared]_vars

\* a request that found its id in the cache was refused while locked
C4_Witness ==
  /\ vault = None
  /\ \E r \in ReqIds :
       Done(r) /\ Status(r) = 403 /\ reqs[r].cached # None /\ reqs[r].id \in DOMAIN cache

\* C5: a failed unlock leaves the session cell and the vault directory (store
\* file, salt file, asset directory) exactly as they were before the call.
C5_FailedUnlockChangesNothing ==
  [][ret'.op = "unlock_vault" /\ ~ret'.ok => vault' = vault /\ fs' = fs]_vars

\* C6: for a vault created with password p (its salt file in place, no call
\* failing for a reason of the disk), an unlock with p succeeds with the key
\* derived at creation, and an unlock with another password fails with
\* InvalidPassword and installs no session.
C6_PasswordDecides ==
  [][\A d \in Dirs :
       /\ ret'.op = "unlock_vault" /\ d \in ret'.ids
       /\ created[d] # None /\ fs[d].salt # 0 /\ ret'.arg[3] = 0
       => IF ret'.arg[1] = Get(created[d]).pw
            THEN ret'.ok /\ vault' = Some([dir |-> d, key |-> Get(created[d]).key])
            ELSE ~ret'.ok /\ ret'.err = InvalidPassword /\ vault' = vault]_vars

\* C7: unlocking a directory whose store file exists and whose .salt file is
\* absent fails with the missing-salt error, whatever the password, and never
\* with InvalidPassword.
C7_MissingSalt ==
  [][\A d \in Dirs :
       /\ ret'.op = "unlock_vault" /\ d \in ret'.ids
       /\ fs[d].db # None /\ fs[d].salt = 0
       => /\ ~ret'.ok /\ ret'.err = SaltMissing /\ ret'.err # InvalidPassword
          /\ vault' = vault /\ fs' = fs]_vars

\* the vault's own password was refused for the missing salt
C7_Witness ==
  \E d \in Dirs :
    /\ ret.op = "unlock_vault" /\ d \in ret.ids /\ ret.err = SaltMissing
    /\ created[d] # None /\ ret.arg[1] = Get(created[d]).pw /\ ret.arg[3] = 0

\* C8: no unlock of a directory whose store file exists writes the salt file
\* or recreates the store, and a created vault's salt file holds the salt of
\* its creation for as long as the file exists.
StoreKept(old, new) ==
  /\ new # None
  /\ Get(old).key # 0 => Get(new).key = Get(old).key
  /\ Get(old).shardsTable => Get(new).shardsTable
  /\ Get(old).assetsTable => Get(new).assetsTable

C8_SaltWrittenOnce ==
  /\ [][\A d \in Dirs :
          ret'.op = "unlock_vault" /\ fs[d].db # None
            => fs'[d].salt = fs[d].salt /\ StoreKept(fs[d].db, fs'[d].db)]_vars
  /\ [](\A d \in Dirs :
          created[d] # None => fs[d].salt \in {0, Get(created[d]).key[2]})

\* an existing vault was unlocked while generate_salt would have returned a
\* salt other than the vault's
C8_Witness ==
  \E d \in Dirs :
    /\ ret.op = "unlock_vault" /\ ret.ok /\ d \in ret.ids
    /\ created[d] # None /\ ret.arg[2] # fs[d].salt

\* C9: a successful unlock replaces the session with the new one, close_vault
\* sets it to None, and a request holds the asset key or is answered with
\* bytes only if a session was unlocked at some time since it started.
C9_SessionReplacedAndDropped ==
  /\ [][(ret'.op = "unlock_vault" /\ ret'.ok)
          => \E d \in ret'.ids :
               vault' = Some([dir |-> d,
                              key |-> derive_key(ret'.arg[1], fs'[d].salt)])]_vars
  /\ [][ret'.op = "close_vault" => vault' = None]_vars
  /\ [](\A r \in ReqIds :
          (reqs[r].key # None \/ CarriesBytes(r)) => reqs[r].unl)

\* a request that started after close_vault, with its id still in the cache,
\* was refused
C9_Witness ==
  \E r \in ReqIds :
    /\ Done(r) /\ ~reqs[r].unl /\ reqs[r].cached # None /\ Status(r) = 403
    /\ deletedOk = {}

\* the answer is made of the plaintext the request holds: all of it (200),
\* the slice its Content-Range names (206), or "range not satisfiable"
Served(r) ==
  LET resp == Get(reqs[r].resp)
      data == Get(reqs[r].data)
  IN \/ resp.status = 200 /\ resp.body = data
     \/ /\ resp.status = 206
        /\ resp.body = SubSeq(data, resp.crange[1] + 1, resp.crange[2] + 1)
        /\ resp.body # <<>>
     \/ resp.status = 416 /\ resp.crange = <<Len(data)>>

\* C10: a request that close_vault overtook after its last session lookup is
\* not failed by it: it is answered from the plaintext of the asset (200, or
\* 206 / 416 as its Range header asks), unless the blob file has been
\* deleted under it.
C10_CloseSparesInFlight ==
  \A r \in ReqIds :
    Done(r) /\ reqs[r].closedPast
      => \/ Served(r)
         \/ /\ Get(reqs[r].resp).reason \in {"File not found on disk", "Failed to read file"}
            /\ FileAt(Get(reqs[r].path)) = None

\* a cache miss was served in full although close_vault ran before its answer
C10_Witness ==
  \E r \in ReqIds :
    /\ Done(r) /\ reqs[r].closedPast /\ reqs[r].cached = None
    /\ Status(r) = 200 /\ Get(reqs[r].resp).body = <<7, 8>> /\ vault = None

\* work on a blob or on the cache
BlobWork == {"asset_read", "asset_write", "encrypt", "decrypt", "cache_mutate"}

\* C11: no operation holds the session lock while it reads or writes an asset
\* file, encrypts, decrypts or mutates the cache, and none holds the cache
\* lock while it decrypts.
C11_NoLockAcrossBlobWork ==
  \A t \in Threads :
    /\ At(t)[2] \in BlobWork => "vault" \notin thr[t].held
    /\ At(t)[2] = "decrypt" => "cache" \notin thr[t].held

\* C12: no thread holds the session lock and the cache lock together, in
\* every state with a running operation some running operation can take a
\* step (no deadlock), and under fair scheduling every started operation
\* returns.
C12_NoDeadlock ==
  /\ [](\A t \in Threads : ~({"vault", "cache"} \subseteq thr[t].held))
  /\ []((\E t \in Threads \ {0} : Busy(t))
         => ENABLED (\E t \in Threads \ {0} : Progress(t)))
  /\ \A t \in Threads \ {0} : Busy(t) ~> ~Busy(t)

\* delete_asset waits for the cache lock while a get_asset holds it
C12_Witness ==
  \E t, u \in Threads :
    /\ thr[t].op = "delete_asset" /\ At(t) = <<"lock", "cache">>
    /\ thr[u].op = "get_asset" /\ "cache" \in thr[u].held

\* C19: every get_server_port call returns the port the streaming server
\* bound, never the initial placeholder 0.
C19_PortReturned ==
  ret.op = "get_server_port" => ret.arg[1] # 0 /\ ret.arg[1] = bound

\* the trial's Range header, its parts as the client wrote them
TrialRange == Get(trial.hdr)
TrialLen == Len(trial.data)
\* the last byte the header asks for: <end>, or the last byte of the asset
\* when <end> is absent or lies beyond every asset (-3)
AskedEnd == IF TrialRange.end \in {-2, -3} THEN TrialLen - 1 ELSE TrialRange.end
AskedLast == IF AskedEnd <= TrialLen - 1 THEN AskedEnd ELSE TrialLen - 1

\* C13: for bytes=<start>-<end> or bytes=<start>- on an asset of length L
\* with start <= end and start < L (end defaulting to L-1), the response is
\* 206 with the plaintext bytes start..min(end, L-1), Content-Range
\* "bytes start-min(end,L-1)/L", the asset's Content-Type and
\* Content-Length min(end,L-1) - start + 1.
C13_PartialContent ==
  (/\ trial.fn = "range" /\ trial.out # None /\ trial.hdr # None
   /\ TrialRange.start >= 0 /\ TrialRange.end \in {-2, -3} \cup (0..MaxRange)
   /\ TrialRange.start <= AskedEnd /\ TrialRange.start < TrialLen)
  => LET out == Get(trial.out)
     IN /\ out.status = 206
        /\ out.body = [i \in 1..(AskedLast - TrialRange.start + 1) |->
                         trial.data[TrialRange.start + i]]
        /\ out.crange = <<TrialRange.start, AskedLast, TrialLen>>
        /\ out.mime = trial.mime
        /\ Len(out.body) = AskedLast - TrialRange.start + 1

\* bytes=1-3 on a two-byte asset: the end is clamped and one byte is served
C13_Witness ==
  /\ trial.fn = "range" /\ trial.out # None
  /\ trial.hdr = Some([start |-> 1, end |-> 3]) /\ trial.data = <<7, 8>>
  /\ Get(trial.out).status = 206 /\ Get(trial.out).body = <<8>>

\* C14: for bytes=<start>-<end> on an asset of length L, if start > end or
\* start >= L the response is 416 with Content-Range "bytes */L" and an empty
\* body.  (A <start> above u64::MAX is at or beyond L for every asset.)
C14_NotSatisfiable ==
  (/\ trial.fn = "range" /\ trial.out # None /\ trial.hdr # None
   /\ TrialRange.start \in {-3} \cup (0..MaxRange)
   /\ TrialRange.end \in {-3} \cup (0..MaxRange)
   /\ \/ TrialRange.start = -3
      \/ TrialRange.start >= TrialLen
      \/ TrialRange.end >= 0 /\ TrialRange.start > TrialRange.end)
  => LET out == Get(trial.out)
     IN out.status = 416 /\ out.crange = <<TrialLen>> /\ out.body = <<>>

\* C15: a get_asset request that ends in a failure response (403 vault
\* locked, 404 for a missing row or file, 500 for a failed read or decrypt)
\* has changed nothing: it has not inserted into the cache, and each of its
\* steps other than the cache insertion leaves the session, the cache, the
\* store and the asset files as they were.
C15_FailureLeavesState ==
  /\ [](\A r \in ReqIds :
          Done(r) /\ Status(r) \in {403, 404, 500} => ~reqs[r].ins)
  /\ [][\A r \in ReqIds :
          reqs'[r].pc # reqs[r].pc /\ reqs[r].pc # "insert" => UNCHANGED Shared]_vars

\* a miss failed on its missing file while another asset was in the cache
C15_Witness ==
  \E r \in ReqIds :
    /\ Done(r) /\ Get(reqs[r].resp).reason = "File not found on disk"
    /\ DOMAIN cache # {} /\ reqs[r].id \notin DOMAIN cache

\* C16: for every buffer, the empty one included, and every key,
\* encrypt_data gives the nonce (NONCE_LEN bytes) followed by the ciphertext
\* with its tag, and decrypt_data with the same key gives the buffer back.
C16_RoundTrip ==
  /\ trial.blob # None =>
       /\ Len(Get(trial.blob)) = NONCE_LEN + Len(trial.data) + TagLen
       /\ SubSeq(Get(trial.blob), 1, NONCE_LEN) = trial.nonce
       /\ SubSeq(Get(trial.blob), NONCE_LEN + 1, Len(Get(trial.blob)))
            = Aes256Gcm_encrypt(trial.key, trial.nonce, trial.data)
  /\ trial.out # None /\ trial.with = trial.key =>
       Get(trial.out) = Some(trial.data)

\* the empty buffer has gone through encrypt_data and decrypt_data
C16_Witness ==
  /\ trial.data = <<>>
  /\ trial.out # None /\ trial.with = trial.key
  /\ Len(Get(trial.blob)) = NONCE_LEN + TagLen

\* the blob of asset id as it is on disk
BlobOf(id) == files[imported[id].dir][id]
OnDisk(id) == id \in DOMAIN imported /\ id \in DOMAIN files[imported[id].dir]
ReadsDamaged(r) ==
  /\ reqs[r].pc = "read"
  /\ reqs'[r].pc # "read"
  /\ OnDisk(reqs[r].id)
  /\ \/ ~imported[reqs[r].id].intact
     \/ Get(reqs[r].key) # imported[reqs[r].id].key

\* C17: decrypt_data gives Err(DecryptionError) for a blob shorter than
\* NONCE_LEN bytes, for a key other than the one the blob was sealed under
\* and for a blob of which a byte was changed; get_asset then answers with
\* its decryption failure and leaves the cache as it is.
C17_TamperRejected ==
  /\ [](\A id \in AssetIds : OnDisk(id) =>
          /\ (Len(BlobOf(id)) < NONCE_LEN
                => \A k \in Keys : decrypt_data(BlobOf(id), k) = None)
          /\ (\A k \in Keys \ {imported[id].key} : decrypt_data(BlobOf(id), k) = None)
          /\ (~imported[id].intact
                => \A k \in Keys : decrypt_data(BlobOf(id), k) = None))
  /\ [][\A r \in ReqIds : ReadsDamaged(r) =>
          /\ reqs'[r].pc = "done"
          /\ Get(reqs'[r].resp).status = 500
          /\ Get(reqs'[r].resp).reason = "Failed to decrypt"
          /\ cache' = cache /\ others' = others]_vars
  /\ [](\A r \in ReqIds :
          Done(r) /\ Get(reqs[r].resp).reason = "Failed to decrypt" => ~reqs[r].ins)

\* a request for a damaged blob has ended with the decryption failure while
\* the cache holds nothing for it
C17_Witness ==
  \E r \in ReqIds :
    /\ Done(r) /\ Get(reqs[r].resp).reason = "Failed to decrypt"
    /\ OnDisk(reqs[r].id) /\ imported[reqs[r].id].damaged
    /\ reqs[r].id \notin DOMAIN cache

\* C18: for the same vault state, asset id and Range header the custom-scheme
\* handler as wired in lib.rs and get_asset give the same status, the same
\* Content-Range and Content-Type and the same body.
C18_SameResponse ==
  trial.fn = "serve" =>
    /\ trial.scheme.status = trial.http.status
    /\ trial.scheme.crange = trial.http.crange
    /\ trial.scheme.mime = trial.http.mime
    /\ trial.scheme.body = trial.http.body

\* C20: import_asset creates the row with shard_id NULL and writes the
\* plaintext sealed under the session's key; while the vault stays unlocked
\* and the asset is not deleted, a get_asset request for it without a Range
\* header gets status 200 and the imported plaintext as its body, on a cache
\* miss and on a cache hit alike.
C20_ImportedServed ==
  /\ [][nextId' # nextId /\ ret'.ok =>
          LET id == nextId
              d == Get(vault).dir
          IN /\ rows'[d][id].shard = 0
             /\ files'[d][id] \in {encrypt_data(imported'[id].data, Get(vault).key, n) :
                                     n \in Nonces}
             /\ decrypt_data(files'[d][id], Get(vault).key) = Some(imported'[id].data)]_vars
  /\ [](\A r \in ReqIds :
          (/\ Done(r)
           /\ reqs[r].steady
           /\ reqs[r].id \in DOMAIN rows[imported[reqs[r].id].dir])
          => /\ Status(r) = 200
             /\ Get(reqs[r].resp).body = imported[reqs[r].id].data)

\* a request for an imported asset has been answered from the cache
C20_Witness ==
  \E r \in ReqIds :
    /\ Done(r) /\ reqs[r].steady /\ reqs[r].cached # None
    /\ reqs[r].id \in DOMAIN rows[imported[reqs[r].id].dir]
    /\ Status(r) = 200
    /\ Get(reqs[r].resp).body = imported[reqs[r].id].data

\* C21: after create_shard or update_shard has succeeded for shard s with a
\* content that references the asset ids A, every asset row with an id in A
\* has shard_id = s, whatever it was before, and every other row is as it was.
C21_SaveLinksAssets ==
  [][ret'.ok /\ ret'.op \in {"create_shard", "update_shard"} =>
       LET d == Get(vault).dir
           A == {trial'.content[i] : i \in DOMAIN trial'.content} \ {0}
       IN /\ DOMAIN rows'[d] = DOMAIN rows[d]
          /\ \A a \in DOMAIN rows[d] :
               /\ a \in A => rows'[d][a].shard \in ret'.ids
               /\ a \notin A => rows'[d][a] = rows[d][a]
               /\ rows'[d][a].file = rows[d][a].file
               /\ rows'[d][a].mime = rows[d][a].mime]_vars

\* a save has taken an asset from another shard while an asset it does not
\* reference kept its owner
C21_Witness ==
  /\ ret.ok /\ ret.op \in {"create_shard", "update_shard"}
  /\ trial.fn = "save"
  /\ \E a \in DOMAIN trial.before, b \in DOMAIN trial.before :
       /\ a \in {trial.content[i] : i \in DOMAIN trial.content}
       /\ trial.before[a].shard \notin ({0} \cup ret.ids)
       /\ rows[Get(vault).dir][a].shard \in ret.ids
       /\ b \notin {trial.content[i] : i \in DOMAIN trial.content}
       /\ rows[Get(vault).dir][b].shard \notin ({0} \cup ret.ids)

\* C22: on an unlocked vault delete_asset(id) returns "Asset not found" and
\* leaves rows, blobs and cache as they are when no row has the id; when
\* the row exists it removes the row and returns Ok, whether or not the blob
\* is still on disk.
C22_DeleteAsset ==
  /\ [][del = 0 /\ vault # None
        /\ ret'.op \in {"delete_asset", "delete_asset_locked"} =>
          LET id == trial'.id
              d == Get(vault).dir
          IN IF id \notin DOMAIN rows[d]
               THEN /\ ret' = Err("delete_asset", "Asset not found")
                    /\ UNCHANGED <<rows, files, cache, others>>
               ELSE /\ id \notin DOMAIN rows'[d]
                    /\ id \notin DOMAIN files'[d]
                    /\ del' = id]_vars
  /\ [][del # 0 /\ del' # del =>
          /\ ret' = [Ok("delete_asset") EXCEPT !.ids = {del}]
          /\ del \notin DOMAIN cache']_vars
  /\ [](del # 0 => ENABLED delete_asset_invalidate)

\* delete_asset has returned Ok for an asset whose blob was missing on disk
C22_Witness ==
  /\ ret.op = "delete_asset" /\ ret.ok
  /\ trial.fn = "delete" /\ trial.id \in ret.ids
  /\ trial.row /\ ~trial.file
  /\ trial.id \notin DOMAIN rows[Get(vault).dir]

\* C23: once close_vault has returned and no streaming request is in flight,
\* the cache of decrypted assets is empty.
C23_LockedCacheEmpty ==
  (vault = None /\ \A r \in ReqIds : reqs[r].pc = "idle")
    => DOMAIN cache = {} /\ others = 0

\* C24: in every state where no request and no deletion is in flight, every
\* key of the cache is the id of an asset row that exists.
C24_CacheKeysHaveRows ==
  (del = 0 /\ \A r \in ReqIds : reqs[r].pc = "idle")
    => \A id \in DOMAIN cache : \E d \in Dirs : id \in DOMAIN rows[d]

\* C25: for an asset of length 0 and any Range header that starts with
\* "bytes=", the Range code neither wraps nor panics and the response is 416
\* with Content-Range "bytes */0".
C25_EmptyAssetRange ==
  (trial.fn = "range" /\ trial.out # None /\ trial.data = <<>> /\ trial.hdr # None)
    => /\ Get(trial.out).status = 416
       /\ Get(trial.out).crange = <<0>>
       /\ Get(trial.out).body = <<>>

\* C26: a get_asset request that missed the cache and carries asset bytes
\* took its mime type and its path and key from the same session.
C26_OneSessionPerRequest ==
  \A r \in ReqIds :
    (Done(r) /\ reqs[r].cached = None /\ Status(r) = 200)
      => trial.mime = trial.pathkey
====
